---- MODULE Spec2Model ----
(***************************************************************************)
(* Model of openai_proxy.py: the request-forwarding pipeline of the        *)
(* reverse proxy.  One behaviour is the life of one inbound request: the   *)
(* route handler runs (proxy_generic_get / proxy_generic_post, which call  *)
(* proxy_request and through it the shared proxy_session), and, for a      *)
(* streamed answer, the WSGI server then drains the stream_response        *)
(* generator line by line.                                                 *)
(*                                                                         *)
(* Bytes and characters are one-character strings; the two bytes "xC3",    *)
(* "xA9" are the UTF-8 encoding of the single character "e'".  Texts and   *)
(* byte strings are sequences of them.                                     *)
(***************************************************************************)
EXTENDS Integers, Sequences, FiniteSets, TLC

VARIABLES
    pc,         \* "received" | "done" | "streaming" | "stream_closed" | "stream_broken"
    req,        \* the inbound request: [method, headers, body]
    up,         \* what the upstream call produced (NoCall until the transport is invoked)
    calls,      \* number of invocations of proxy_session.request for this request
    forwarded,  \* the mapping returned by forwarded_headers()
    sent,       \* the headers argument handed to proxy_session.request
    resp,       \* the response the client gets from the handler
    pos,        \* stream_response: number of upstream lines read so far
    out         \* stream_response: the bytes written to the client so far

vars == <<pc, req, up, calls, forwarded, sent, resp, pos, out>>

----------------------------------------------------------------------------
(* Bounds of the explored inputs *)

MaxBodyLen == 3     \* longest enumerated upstream body, in bytes
PadSlack == 2       \* long upstream bodies run from RawLimit - PadSlack to RawLimit + PadSlack padding bytes

\* the slice bound of raw_content: [:400]
RawLimit == 400

----------------------------------------------------------------------------
(* Generic sequence helpers *)

Take(s, n) == SubSeq(s, 1, IF n < Len(s) THEN n ELSE Len(s))

\* concatenation of a sequence of sequences (by halves: long bodies nest shallowly)
RECURSIVE Flatten(_)
Flatten(ss) ==
    IF ss = <<>> THEN <<>>
    ELSE IF Len(ss) = 1 THEN ss[1]
    ELSE Flatten(SubSeq(ss, 1, Len(ss) \div 2))
         \o Flatten(SubSeq(ss, Len(ss) \div 2 + 1, Len(ss)))

SeqsUpTo(S, n) == UNION {[1..k -> S] : k \in 0..n}

----------------------------------------------------------------------------
(* Inbound headers: a mapping from header name (a sequence of characters) *)
(* to value, as request.headers.items() yields them.                      *)

HOST == <<"H", "o", "s", "t">>
AUTHORIZATION == <<"A", "u", "t", "h", "o", "r", "i", "z", "a", "t", "i", "o", "n">>
CONTENT_TYPE == <<"C", "o", "n", "t", "e", "n", "t", "-", "T", "y", "p", "e">>

HeaderNames == {HOST, AUTHORIZATION, CONTENT_TYPE}

HeaderValues(k) ==
    CASE k = HOST -> {"proxy.local"}
      [] k = AUTHORIZATION -> {"", "Bearer k"}
      [] OTHER -> {"application/json", "text/plain"}

AllHeaderValues == UNION {HeaderValues(k) : k \in HeaderNames}

InboundHeaders ==
    UNION { {h \in [S -> AllHeaderValues] : \A k \in S : h[k] \in HeaderValues(k)}
            : S \in SUBSET HeaderNames }

\* str.lower() on the letters that occur in header names
LowerChar(c) ==
    CASE c = "H" -> "h"
      [] c = "A" -> "a"
      [] c = "C" -> "c"
      [] c = "T" -> "t"
      [] OTHER -> c

Lower(s) == [i \in DOMAIN s |-> LowerChar(s[i])]

\* request.headers.get(name): case-insensitive lookup, None ("" here, both falsy) when absent
HeaderGet(h, name) ==
    IF \E k \in DOMAIN h : Lower(k) = Lower(name)
    THEN h[CHOOSE k \in DOMAIN h : Lower(k) = Lower(name)]
    ELSE ""

\* forwarded_headers(): copy every header but Host
ForwardedHeadersExactCase(h) ==
    [k \in {x \in DOMAIN h : x # Lower(HOST)} |-> h[k]]

forwarded_headers(h) ==
    [k \in {x \in DOMAIN h : Lower(x) # Lower(HOST)} |-> h[k]]

\* the authoritative gate of proxy_request: request.headers.get("Authorization") is truthy
HasAuthorizationAlways(h) == TRUE

HasAuthorization(h) == HeaderGet(h, AUTHORIZATION) # ""

----------------------------------------------------------------------------
(* The POST body and request.get_json().  A body is a sequence of JSON     *)
(* tokens; json.loads accepts scalars, [], [scalar], {} and {"key":scalar}. *)

ScalarTokens == {"null", "true", "false", "1", "0", "\"yes\""}
KeyTokens == {"\"stream\"", "\"model\""}

RequestBodies ==
    { <<>>,
      <<"not-json">>,
      <<"null">>,
      <<"1">>,
      <<"[", "1", "]">>,
      <<"{", "}">>,
      <<"{", "\"model\"", ":", "1", "}">>,
      <<"{", "\"stream\"", ":", "true", "}">>,
      <<"{", "\"stream\"", ":", "false", "}">> }

PyNone == [t |-> "None", v |-> ""]
PyFalse == [t |-> "bool", v |-> "false"]
JsonInvalid == [t |-> "invalid", v |-> ""]

ParseScalar(tok) ==
    CASE tok = "null" -> PyNone
      [] tok \in {"true", "false"} -> [t |-> "bool", v |-> tok]
      [] tok \in {"1", "0"} -> [t |-> "int", v |-> tok]
      [] OTHER -> [t |-> "str", v |-> "yes"]

KeyOf(tok) == IF tok = "\"stream\"" THEN "stream" ELSE "model"

\* json.loads on the request body; JsonInvalid stands for the ValueError it raises
JsonLoads(toks) ==
    IF Len(toks) = 1 /\ toks[1] \in ScalarTokens THEN ParseScalar(toks[1])
    ELSE IF toks = <<"[", "]">> THEN [t |-> "list", v |-> <<>>]
    ELSE IF Len(toks) = 3 /\ toks[1] = "[" /\ toks[2] \in ScalarTokens /\ toks[3] = "]"
        THEN [t |-> "list", v |-> <<ParseScalar(toks[2])>>]
    ELSE IF toks = <<"{", "}">> THEN [t |-> "dict", v |-> <<>>]
    ELSE IF Len(toks) = 5 /\ toks[1] = "{" /\ toks[2] \in KeyTokens /\ toks[3] = ":"
            /\ toks[4] \in ScalarTokens /\ toks[5] = "}"
        THEN [t |-> "dict", v |-> <<[key |-> KeyOf(toks[2]), val |-> ParseScalar(toks[4])]>>]
    ELSE JsonInvalid

\* Python truthiness of a parsed value
Truthy(x) ==
    CASE x.t = "None" -> FALSE
      [] x.t = "bool" -> x.v = "true"
      [] x.t = "int" -> x.v # "0"
      [] x.t = "str" -> x.v # ""
      [] OTHER -> Len(x.v) > 0

\* dict.get(key, default)
DictGet(d, key, default) ==
    IF \E i \in DOMAIN d.v : d.v[i].key = key
    THEN d.v[CHOOSE i \in DOMAIN d.v : d.v[i].key = key].val
    ELSE default

\* What request.get_json() does with a body whose Content-Type is not JSON
\* depends on the installed framework release: return None, raise BadRequest,
\* or raise UnsupportedMediaType.
MimetypeModes == {"returns_none", "raises_400", "raises_415"}

is_json(h) == HeaderGet(h, CONTENT_TYPE) = "application/json"

\* request.get_json(): [raised, data]
get_json(h, body, mode) ==
    IF ~is_json(h)
    THEN CASE mode = "returns_none" -> [raised |-> "none", data |-> PyNone]
           [] mode = "raises_400" -> [raised |-> "BadRequest", data |-> PyNone]
           [] OTHER -> [raised |-> "UnsupportedMediaType", data |-> PyNone]
    ELSE IF JsonLoads(body).t = "invalid"
         THEN [raised |-> "BadRequest", data |-> PyNone]
         ELSE [raised |-> "none", data |-> JsonLoads(body)]

----------------------------------------------------------------------------
(* The upstream: what one proxy_session.request(...) call can produce.     *)

\* bytes of the enumerated bodies; "xC3" and "xA9" occur in the bodies below
BodyBytes == {"1", "a", "\n"}

Pad(n) == [i \in 1..n |-> "a"]

\* bodies with a two-byte character, a stray continuation byte, a cut-off lead byte
MultiByteBodies ==
    { <<"xC3", "xA9">>, <<"xA9">>, <<"a", "xC3">>, <<"xC3", "xA9", "\n", "1">> }

\* a body in event-stream framing: three data lines, blank lines between them
EventStreamBodies ==
    { <<"a", "\n", "\n", "1", "\n", "\n", "a", "1", "\n">> }

UpstreamBodies ==
    SeqsUpTo(BodyBytes, MaxBodyLen)
    \cup MultiByteBodies
    \cup EventStreamBodies
    \cup { p \o Pad(n) : p \in {<<>>, <<"xC3", "xA9">>, <<"xA9">>},
                         n \in (RawLimit - PadSlack)..(RawLimit + PadSlack) }

UpstreamStatuses == {200, 201, 304, 404, 503}

\* exception classes of requests.exceptions the transport raises, each with its
\* base classes (ConnectTimeout derives from both ConnectionError and Timeout)
Bases(e) ==
    CASE e = "SSLError" -> {"SSLError", "ConnectionError", "RequestException"}
      [] e = "ProxyError" -> {"ProxyError", "ConnectionError", "RequestException"}
      [] e = "ConnectTimeout" -> {"ConnectTimeout", "ConnectionError", "Timeout", "RequestException"}
      [] e = "ReadTimeout" -> {"ReadTimeout", "Timeout", "RequestException"}
      [] e = "ConnectionError" -> {"ConnectionError", "RequestException"}
      [] e = "TooManyRedirects" -> {"TooManyRedirects", "RequestException"}
      [] e = "ChunkedEncodingError" -> {"ChunkedEncodingError", "RequestException"}
      [] e = "HTTPError" -> {"HTTPError", "RequestException"}
      [] e = "BadRequest" -> {"BadRequest", "HTTPException"}
      [] e = "UnsupportedMediaType" -> {"UnsupportedMediaType", "HTTPException"}
      [] OTHER -> {e}

TransportExceptions ==
    {"SSLError", "ProxyError", "ConnectTimeout", "ReadTimeout", "ConnectionError",
     "TooManyRedirects"}

\* exc: the exception the call raises ("none": it returns a response with this
\* status and body); abort: the body transfer breaks off after `body`
UpstreamOutcomes ==
    [exc : TransportExceptions, status : {0}, body : {<<>>}, abort : {FALSE}]
    \cup [exc : {"none"}, status : UpstreamStatuses, body : UpstreamBodies, abort : BOOLEAN]

NoCall == [exc |-> "nocall", status |-> 0, body |-> <<>>, abort |-> FALSE]

\* Response.raise_for_status() raises HTTPError for 4xx and 5xx
RaisesForStatus(status) == 400 <= status /\ status < 600

\* Response.__bool__ is Response.ok: raise_for_status() does not raise
ResponseBool(o) == ~RaisesForStatus(o.status)

IsWhitespace(b) == b = "\n"

\* bytes.strip(): drop the whitespace at both ends
Strip(bs) ==
    LET keep == {i \in DOMAIN bs : ~IsWhitespace(bs[i])} IN
    IF keep = {} THEN <<>>
    ELSE SubSeq(bs, CHOOSE i \in keep : \A j \in keep : i <= j,
                    CHOOSE i \in keep : \A j \in keep : j <= i)

NoValue == [t |-> "none", digits |-> <<>>]

\* response.json(): the body is JSON when, whitespace stripped, it is a number;
\* NoValue stands for the JSONDecodeError it raises otherwise
ResponseJson(bs) ==
    LET core == Strip(bs) IN
    IF core # <<>> /\ \A i \in DOMAIN core : core[i] = "1"
    THEN [t |-> "number", digits |-> core]
    ELSE NoValue

\* bytes.decode('utf-8'): [ok, text]; ok = FALSE stands for UnicodeDecodeError.
\* "xC3" leads a two-byte character and must be followed by "xA9"; "xA9" is a
\* continuation byte and must follow "xC3".
Utf8Decode(bs) ==
    LET wellformed ==
            \A i \in DOMAIN bs :
                /\ bs[i] = "xC3" => (i < Len(bs) /\ bs[i + 1] = "xA9")
                /\ bs[i] = "xA9" => (i > 1 /\ bs[i - 1] = "xC3")
        chars == [i \in DOMAIN bs |->
                    CASE bs[i] = "xC3" -> <<"e'">>
                      [] bs[i] = "xA9" -> <<>>
                      [] OTHER -> <<bs[i]>>]
    IN IF wellformed THEN [ok |-> TRUE, text |-> Flatten(chars)]
       ELSE [ok |-> FALSE, text |-> <<>>]

\* the characters str(bytes) writes for one byte
ReprByte(b) ==
    CASE b = "\n" -> <<"\\", "n">>
      [] b = "xC3" -> <<"\\", "x", "c", "3">>
      [] b = "xA9" -> <<"\\", "x", "a", "9">>
      [] OTHER -> <<b>>

\* str(response.content): b'...'
BytesStr(bs) ==
    <<"b", "'">> \o Flatten([i \in DOMAIN bs |-> ReprByte(bs[i])]) \o <<"'">>

\* the permissive decoding of the body: UTF-8, else the bytes' string form
PermissiveDecode(bs) ==
    IF Utf8Decode(bs).ok THEN Utf8Decode(bs).text ELSE BytesStr(bs)

\* raw_content of the invalid-JSON fallback: decode, then [:400]
RawContentUncut(bs) == PermissiveDecode(bs)

RawContent(bs) ==
    IF Utf8Decode(bs).ok
    THEN Take(Utf8Decode(bs).text, RawLimit)
    ELSE Take(BytesStr(bs), RawLimit)

----------------------------------------------------------------------------
(* Responses *)

\* by = "route": returned by the route code; by = "framework": an exception left
\* the route code and the framework's generic handling answered
ErrorResponse(status, msg) ==
    [status |-> status, by |-> "route", kind |-> "error", error |-> msg,
     has_raw |-> FALSE, raw |-> <<>>, value |-> NoValue]

NoResponse ==
    [status |-> 0, by |-> "none", kind |-> "none", error |-> <<>>,
     has_raw |-> FALSE, raw |-> <<>>, value |-> NoValue]

\* the framework's answer to an exception that escapes a view function:
\* an HTTPException becomes its own status, anything else a 500 page
FrameworkResponse(e) ==
    [status |-> CASE e = "BadRequest" -> 400
                  [] e = "UnsupportedMediaType" -> 415
                  [] OTHER -> 500,
     by |-> "framework", kind |-> "html", error |-> <<e>>,
     has_raw |-> FALSE, raw |-> <<>>, value |-> NoValue]

----------------------------------------------------------------------------
(* proxy_request *)

\* the except clauses of proxy_request, in source order
ExceptClauses ==
    <<"SSLError", "HTTPError", "ConnectionError", "Timeout", "RequestException", "ValueError">>

\* the first clause that matches the raised exception, or "uncaught"
CaughtBy(e) ==
    IF \E i \in DOMAIN ExceptClauses : ExceptClauses[i] \in Bases(e)
    THEN ExceptClauses[CHOOSE i \in DOMAIN ExceptClauses :
            /\ ExceptClauses[i] \in Bases(e)
            /\ \A j \in 1..(i - 1) : ExceptClauses[j] \notin Bases(e)]
    ELSE "uncaught"

\* the body of each except clause
HandlerResponse(clause, o) ==
    CASE clause = "SSLError" -> ErrorResponse(502, <<"SSL error: ", "str(e)">>)
      [] clause = "HTTPError" ->
            ErrorResponse(IF ResponseBool(o) THEN o.status ELSE 500, <<"str(e)">>)
      [] clause = "ConnectionError" -> ErrorResponse(503, <<"Connection failed">>)
      [] clause = "Timeout" -> ErrorResponse(504, <<"Request timed out">>)
      [] clause = "RequestException" -> ErrorResponse(500, <<"str(e)">>)
      [] OTHER -> ErrorResponse(400, <<"Invalid JSON data">>)

\* what the try block raises: the transport's exception; a body transfer that
\* breaks while the session reads a buffered body; HTTPError from raise_for_status
Raised(o, stream) ==
    IF o.exc # "none" THEN o.exc
    ELSE IF o.abort /\ ~Truthy(stream) THEN "ChunkedEncodingError"
    ELSE IF RaisesForStatus(o.status) THEN "HTTPError"
    ELSE "none"

\* invocations of proxy_session.request per request that passes the gate
TransportCallsWithRetry(e) == IF e = "none" THEN 1 ELSE 2

TransportCalls(e) == 1

\* headers handed to the transport: Content-Type is set when json_data is truthy
OutboundHeaders(f, json_data) ==
    IF Truthy(json_data)
    THEN [k \in DOMAIN f \cup {CONTENT_TYPE} |->
            IF k = CONTENT_TYPE THEN "application/json" ELSE f[k]]
    ELSE f

\* the buffered path after raise_for_status
BufferedResponse(o) ==
    IF ResponseJson(o.body).t # "none"
    THEN [status |-> 200, by |-> "route", kind |-> "json", error |-> <<>>,
          has_raw |-> FALSE, raw |-> <<>>, value |-> ResponseJson(o.body)]
    ELSE [status |-> 500, by |-> "route", kind |-> "error",
          error |-> <<"Invalid JSON response: ", "str(e)">>,
          has_raw |-> TRUE, raw |-> RawContent(o.body), value |-> NoValue]

StreamedResponse ==
    [status |-> 200, by |-> "route", kind |-> "stream", error |-> <<>>,
     has_raw |-> FALSE, raw |-> <<>>, value |-> NoValue]

\* proxy_request(method, endpoint, json_data=, stream=) with the transport's
\* outcome o: the response, and what the call did on the way
proxy_request(h, json_data, stream, o) ==
    IF ~HasAuthorization(h)
    THEN [resp |-> ErrorResponse(401, <<"Authorization header is required">>),
          calls |-> 0, up |-> NoCall, forwarded |-> <<>>, sent |-> <<>>,
          streaming |-> FALSE]
    ELSE LET f == forwarded_headers(h)
             e == Raised(o, stream)
             r == IF e # "none"
                  THEN IF CaughtBy(e) = "uncaught"
                       THEN FrameworkResponse(e)
                       ELSE HandlerResponse(CaughtBy(e), o)
                  ELSE IF Truthy(stream) THEN StreamedResponse
                  ELSE BufferedResponse(o)
         IN [resp |-> r, calls |-> TransportCalls(e), up |-> o, forwarded |-> f,
             sent |-> OutboundHeaders(f, json_data),
             streaming |-> (e = "none" /\ Truthy(stream))]

----------------------------------------------------------------------------
(* stream_response: the generator behind a streamed answer *)

FirstNewline(bs) ==
    IF \E i \in DOMAIN bs : bs[i] = "\n"
    THEN CHOOSE i \in DOMAIN bs : bs[i] = "\n" /\ \A j \in 1..(i - 1) : bs[j] # "\n"
    ELSE 0

\* bytes.splitlines()
RECURSIVE SplitLines(_)
SplitLines(bs) ==
    IF bs = <<>> THEN <<>>
    ELSE IF FirstNewline(bs) = 0 THEN <<bs>>
    ELSE <<SubSeq(bs, 1, FirstNewline(bs) - 1)>>
         \o SplitLines(SubSeq(bs, FirstNewline(bs) + 1, Len(bs)))

\* response.iter_lines(): the lines of the body; when the transfer breaks off,
\* a last line still waiting for its terminator is never yielded
iter_lines(o) ==
    LET ls == SplitLines(o.body) IN
    IF o.abort /\ o.body # <<>> /\ o.body[Len(o.body)] # "\n"
    THEN SubSeq(ls, 1, Len(ls) - 1)
    ELSE ls

\* one turn of the loop: `if chunk: yield chunk + b"\n\n"`
StreamChunkKeepEmpty(chunk) == chunk \o <<"\n", "\n">>

StreamChunk(chunk) == IF chunk # <<>> THEN chunk \o <<"\n", "\n">> ELSE <<>>

----------------------------------------------------------------------------
(* The state machine *)

\* the GET route never reads the body: two bodies stand for all of them
Requests ==
    [method : {"GET"}, headers : InboundHeaders, body : {<<>>, <<"not-json">>}]
    \cup [method : {"POST"}, headers : InboundHeaders, body : RequestBodies]

Init ==
    /\ pc = "received"
    /\ req \in Requests
    /\ up = NoCall
    /\ calls = 0
    /\ forwarded = <<>>
    /\ sent = <<>>
    /\ resp = NoResponse
    /\ pos = 0
    /\ out = <<>>

Finish(r) ==
    /\ pc' = IF r.streaming THEN "streaming" ELSE "done"
    /\ resp' = r.resp
    /\ up' = r.up
    /\ calls' = r.calls
    /\ forwarded' = r.forwarded
    /\ sent' = r.sent
    /\ UNCHANGED <<req, pos, out>>

Escape(e) ==
    /\ pc' = "done"
    /\ resp' = FrameworkResponse(e)
    /\ UNCHANGED <<req, up, calls, forwarded, sent, pos, out>>

\* GET /v1/<path>
proxy_generic_get ==
    /\ pc = "received"
    /\ req.method = "GET"
    /\ \E o \in UpstreamOutcomes :
        Finish(proxy_request(req.headers, PyNone, PyFalse, o))

\* POST /v1/<path>; only ValueError is caught around get_json and proxy_request
proxy_generic_post ==
    /\ pc = "received"
    /\ req.method = "POST"
    /\ \E mode \in MimetypeModes, o \in UpstreamOutcomes :
        LET j == get_json(req.headers, req.body, mode) IN
        IF j.raised # "none"
        THEN IF "ValueError" \in Bases(j.raised)
             THEN Finish([resp |-> ErrorResponse(400, <<"Invalid JSON data">>),
                          calls |-> 0, up |-> NoCall, forwarded |-> <<>>,
                          sent |-> <<>>, streaming |-> FALSE])
             ELSE Escape(j.raised)
        ELSE IF j.data.t = "None"
        THEN Finish([resp |-> ErrorResponse(400, <<"Request body must be JSON">>),
                     calls |-> 0, up |-> NoCall, forwarded |-> <<>>,
                     sent |-> <<>>, streaming |-> FALSE])
        ELSE IF j.data.t # "dict"
        THEN Escape("AttributeError")
        ELSE Finish(proxy_request(req.headers, j.data,
                                  DictGet(j.data, "stream", PyFalse), o))

\* the server pulls the next upstream line through the generator
stream_response_next ==
    /\ pc = "streaming"
    /\ pos < Len(iter_lines(up))
    /\ pos' = pos + 1
    /\ out' = out \o StreamChunk(iter_lines(up)[pos + 1])
    /\ UNCHANGED <<pc, req, up, calls, forwarded, sent, resp>>

\* the upstream body ends: the generator returns, or the broken transfer's
\* exception leaves it
stream_response_end ==
    /\ pc = "streaming"
    /\ pos = Len(iter_lines(up))
    /\ pc' = IF up.abort THEN "stream_broken" ELSE "stream_closed"
    /\ UNCHANGED <<req, up, calls, forwarded, sent, resp, pos, out>>

Next ==
    \/ proxy_generic_get
    \/ proxy_generic_post
    \/ stream_response_next
    \/ stream_response_end

Spec == Init /\ [][Next]_vars

----------------------------------------------------------------------------
(* Vocabulary of the properties *)

Handled == pc # "received"

NoAuthorizationHeader == \A k \in DOMAIN req.headers : Lower(k) # Lower(AUTHORIZATION)

\* the POST body reaches the route as a JSON object
BodyReadAsObject == is_json(req.headers) /\ JsonLoads(req.body).t = "dict"

\* a POST whose JSON object carries a truthy "stream" member
StreamingRequest ==
    /\ req.method = "POST"
    /\ BodyReadAsObject
    /\ Truthy(DictGet(JsonLoads(req.body), "stream", PyFalse))

\* the upstream answered, completely, and no exception was raised on the way
UpstreamAnswered == calls > 0 /\ up.exc = "none" /\ ~up.abort

Is2xx(status) == 200 <= status /\ status < 300

NonEmptyLine(l) == l # <<>>

\* the non-empty lines, each followed by a blank line, as one byte string
ExpectedStream(lines) ==
    LET kept == SelectSeq(lines, NonEmptyLine) IN
    Flatten([i \in DOMAIN kept |-> kept[i] \o <<"\n", "\n">>])

PayloadIsUpstreamBody ==
    \/ resp.has_raw /\ resp.raw = PermissiveDecode(up.body)
    \/ resp.value # NoValue /\ resp.value = ResponseJson(up.body)

----------------------------------------------------------------------------
(* C1 *)

\* C1 as stated: every handled request without an Authorization header is
\* answered 401 and never reaches the transport.
C1_MissingCredentialAlways401 ==
    (Handled /\ NoAuthorizationHeader) => (resp.status = 401 /\ calls = 0)

\* C1 amended: a request without an Authorization header never reaches the
\* transport; it is answered 401 exactly when it is a GET or a POST whose body
\* is read as a JSON object (any other POST is rejected at the body first).
C1_MissingCredentialNoTransport ==
    (Handled /\ NoAuthorizationHeader) =>
        /\ calls = 0
        /\ up = NoCall
        /\ resp.status = 401 <=> (req.method = "GET" \/ BodyReadAsObject)

C1_Witness ==
    /\ pc = "done"
    /\ NoAuthorizationHeader
    /\ req.method = "POST"
    /\ StreamingRequest
    /\ resp.status = 401
    /\ calls = 0

----------------------------------------------------------------------------
(* C2 *)

\* C2: an upstream error status (4xx, 5xx: the statuses raise_for_status turns
\* into HTTPError), answered completely and without a transport exception, is
\* relayed with the upstream's status and the upstream's body as the payload.
C2_UpstreamErrorRelayed ==
    (pc = "done" /\ UpstreamAnswered /\ RaisesForStatus(up.status)) =>
        (resp.status = up.status /\ PayloadIsUpstreamBody)

----------------------------------------------------------------------------
(* C3 *)

\* C3: a POST whose body is absent or not parsable JSON is answered 400 and
\* never reaches the transport.
C3_MalformedBody400 ==
    (Handled /\ req.method = "POST" /\ JsonLoads(req.body).t = "invalid") =>
        (resp.status = 400 /\ calls = 0)

----------------------------------------------------------------------------
(* C4 *)

\* C4: an upstream call that times out, connecting or waiting for the first
\* byte, is answered 504 with the timeout message, and only a timeout is.
C4_Timeout504 ==
    Handled =>
        /\ up.exc \in {"ConnectTimeout", "ReadTimeout"} =>
                (resp.status = 504 /\ resp.error = <<"Request timed out">>)
        /\ resp.error = <<"Request timed out">> =>
                up.exc \in {"ConnectTimeout", "ReadTimeout"}

----------------------------------------------------------------------------
(* C5 *)

\* C5: a buffered successful upstream answer is relayed with the upstream's
\* status and its JSON value.
C5_BufferedStatusMirrored ==
    (/\ pc = "done"
     /\ UpstreamAnswered
     /\ Is2xx(up.status)
     /\ ~StreamingRequest
     /\ ResponseJson(up.body) # NoValue) =>
        /\ resp.kind = "json"
        /\ resp.status = up.status
        /\ resp.value = ResponseJson(up.body)

----------------------------------------------------------------------------
(* C6 *)

\* C6: a buffered upstream answer that passes raise_for_status but is not JSON
\* is answered 500 with an error message and raw_content, the first RawLimit
\* characters of the decoded body (all of it when it is no longer).
C6_InvalidJsonFallback ==
    (/\ pc = "done"
     /\ UpstreamAnswered
     /\ ~RaisesForStatus(up.status)
     /\ ~StreamingRequest
     /\ ResponseJson(up.body) = NoValue) =>
        /\ resp.status = 500
        /\ resp.by = "route"
        /\ resp.error # <<>>
        /\ resp.has_raw
        /\ Len(resp.raw) <= RawLimit
        /\ resp.raw = Take(PermissiveDecode(up.body), RawLimit)
        /\ Len(PermissiveDecode(up.body)) <= RawLimit => resp.raw = PermissiveDecode(up.body)

C6_Witness ==
    /\ pc = "done"
    /\ UpstreamAnswered
    /\ up.status = 200
    /\ ~StreamingRequest
    /\ ResponseJson(up.body) = NoValue
    /\ Len(PermissiveDecode(up.body)) > RawLimit
    /\ Len(up.body) # Len(PermissiveDecode(up.body))
    /\ resp.status = 500
    /\ Len(resp.raw) = RawLimit

----------------------------------------------------------------------------
(* C7 *)

\* C7: a streaming POST whose upstream call succeeds is answered by a stream;
\* at every moment the bytes written are the non-empty lines among the lines
\* read so far, in order, each followed by a blank line; when the upstream
\* closes, that is every line of the body.
C7_StreamedLines ==
    /\ (Handled /\ StreamingRequest /\ calls > 0 /\ up.exc = "none"
            /\ ~RaisesForStatus(up.status)) =>
            (resp.kind = "stream" /\ pc \in {"streaming", "stream_closed", "stream_broken"})
    /\ pc \in {"streaming", "stream_closed", "stream_broken"} =>
            /\ pos <= Len(iter_lines(up))
            /\ out = ExpectedStream(SubSeq(iter_lines(up), 1, pos))
    /\ pc = "stream_closed" => out = ExpectedStream(SplitLines(up.body))

C7_Witness ==
    /\ pc = "stream_closed"
    /\ StreamingRequest
    /\ Len(SplitLines(up.body)) >= 5
    /\ Len(SelectSeq(SplitLines(up.body), NonEmptyLine)) = 3
    /\ out = <<"a", "\n", "\n", "1", "\n", "\n", "a", "1", "\n", "\n">>

----------------------------------------------------------------------------
(* C8 *)

----------------------------------------------------------------------------
(* C9 *)

\* C9: no exception leaves the route code or the stream generator: every
\* answer is a JSON response built by the route code.
C9_NoExceptionEscapes ==
    Handled => (resp.by = "route" /\ pc # "stream_broken")

----------------------------------------------------------------------------
(* C10 *)

\* C10: the transport is invoked at most once per request; a failed upstream
\* call is answered after that one attempt.
C10_AtMostOneAttempt ==
    /\ calls <= 1
    /\ (Handled /\ up # NoCall) => calls = 1
    /\ (Handled /\ up.exc \in TransportExceptions) => (pc = "done" /\ resp.kind = "error")

C10_Witness ==
    /\ pc = "done"
    /\ up.exc = "ConnectionError"
    /\ calls = 1
    /\ resp.status = 503

====
